---------------------------- MODULE Spec2Model ----------------------------
(***************************************************************************)
(* Model of workflows/deploy-post-steps-generic.py: the post-deployment    *)
(* orchestrator GenericPostDeployer and its command-line entry point main.  *)
(*                                                                         *)
(* One run of main is a state machine over pc.  Values that come from the  *)
(* outside (command-line arguments, configuration keys, the outcome of a   *)
(* remote command, what a configurator does) are drawn where the code      *)
(* reads them.  trace and failed are history variables: the steps that     *)
(* were executed, in order, and the steps whose command or module failed.  *)
(***************************************************************************)
EXTENDS Integers, Sequences, FiniteSets, TLC

VARIABLES
    pc,                 \* position of the control thread
    env_args,           \* args.env: the --env items as given
    env_vars,           \* main's env_vars: the keys of the parsed dict
    dep_steps_enabled,  \* deployment.steps.post_deployment.dependencies.enabled
    enabled,            \* dependency_manager.get_enabled_dependencies()
    lines,              \* _detect_installed_dependencies: output lines still to parse
    installed,          \* dependency_manager.installed_dependencies (a list)
    verify,             \* deploy_application parameter
    cleanup,            \* deploy_application parameter
    docker_enabled,     \* dependencies.docker.enabled
    use_docker,         \* deployment.use_docker
    declared_type,      \* application.type as _get_target_directory reads it
    apache_root,        \* dependencies.apache.config.document_root
    nginx_root,         \* dependencies.nginx.config.document_root
    os_type,            \* client.os_type
    target_dir,         \* _deploy_application_files: target_dir
    owner,              \* _deploy_application_files: owner
    configurators,      \* _configure_application: configurators
    cfg_results,        \* what each configurator invoked so far did
    success,            \* the local of the function the thread is in
    attempt,            \* verification script: loop counter i
    verify_outcome,     \* how the verification script ended
    result,             \* what deploy_application returned: "True" or "False"
    exit_status,        \* the process exit status; -1 while running
    trace,              \* history: steps executed, in order
    failed,             \* history: steps that failed
    package_files,      \* application.package_files
    expected_dirs,      \* _deploy_application_files: expected_dirs
    extracted,          \* host: the directories in ~ after tar -xzf
    with_build,         \* host: the directories in ~ that hold a build directory
    target_state,       \* host: the target directory when the script starts
    extracted_dir       \* deployment script: EXTRACTED_DIR

vars == << pc, env_args, env_vars, dep_steps_enabled, enabled, lines, installed,
           verify, cleanup, docker_enabled, use_docker, declared_type,
           apache_root, nginx_root, os_type, target_dir, owner, configurators,
           cfg_results, success, attempt, verify_outcome, result, exit_status,
           trace, failed, package_files, expected_dirs, extracted, with_build,
           target_state, extracted_dir >>

\* The state of _deploy_application_files and of its script on the host.
script_vars ==
    << package_files, expected_dirs, extracted, with_build, target_state,
       extracted_dir >>

-----------------------------------------------------------------------------
(* Bounds of the model *)

\* At most this many dependencies are enabled by the configuration.
MaxEnabled == 2
\* At most this many probes of the detection script are positive on the host.
MaxHits == 2
\* At most this many steps of one run fail.
MaxFaults == 1
\* At most this many --env items are given.
MaxEnvArgs == 1

-----------------------------------------------------------------------------
(* Values *)

None == "None"
Unset == "unset"

\* The probes of check_script, in script order: the name each one echoes.
ProbeCatalog ==
    << "apache", "nginx", "mysql", "postgresql", "redis", "memcached",
       "docker", "php", "python", "nodejs", "git", "apache" >>

DependencyNames == { ProbeCatalog[i] : i \in DOMAIN ProbeCatalog }

\* Values of application.type: absent, the runtime-specific types, the
\* generic web-facing types, and one type that is neither.
AppTypes == { None, "nodejs", "python", "docker", "web", "api", "static", "lamp" }

DocRoots == { Unset, "/srv/apache", "/srv/nginx" }

OsTypes == { Unset, "ubuntu", "amazon_linux" }

EnvItems == { "KEY=VALUE", "NOEQUALS" }


-----------------------------------------------------------------------------
(* _detect_installed_dependencies: the probe output and its parsing *)

\* A line of output is the sequence of its ':'-separated fields.
MarkerLine(name) == << name, "installed" >>

\* The hosts of the model: which probes are positive.
Hosts == { h \in SUBSET (DOMAIN ProbeCatalog) : Cardinality(h) <= MaxHits }

\* What check_script prints on host h, split at the line breaks.
ProbeOutput(h) ==
    LET Hit(i) == i \in h
        hits == SelectSeq([i \in DOMAIN ProbeCatalog |-> i], Hit)
    IN  << <<"Checking installed services...">> >>
        \o [k \in 1..Len(hits) |-> MarkerLine(ProbeCatalog[hits[k]])]
        \o << <<"Service check completed">>, <<"">> >>

\* ':installed' in line: a ':' is followed by the text "installed".
HasInstalledMarker(line) ==
    \E i \in 2..Len(line) : line[i] = "installed"

\* line.split(':')[0]
DepName(line) == line[1]

EnabledSets == { e \in SUBSET DependencyNames : Cardinality(e) <= MaxEnabled }

\* ParseLine without the test `dep_name in enabled_deps`.
ParseLineUnchecked(list, line, enabled_deps) ==
    IF HasInstalledMarker(line) THEN Append(list, DepName(line)) ELSE list

\* The body of the for loop for one line: the list after the line is parsed.
ParseLine(list, line, enabled_deps) ==
    IF HasInstalledMarker(line) /\ DepName(line) \in enabled_deps
    THEN Append(list, DepName(line))
    ELSE list

Has(list, name) == \E i \in DOMAIN list : list[i] = name

-----------------------------------------------------------------------------
(* _get_target_directory and _get_file_owner *)

APP_TYPE_DIRS ==
    [ t \in {"nodejs", "python", "docker"} |->
        CASE t = "nodejs" -> "/opt/nodejs-app"
          [] t = "python" -> "/opt/python-app"
          [] t = "docker" -> "/opt/docker-app" ]

\* config.get(key, default)
ConfigGet(value, default) == IF value = Unset THEN default ELSE value

\* InferAppType with the container tested before the runtimes.
InferAppTypeContainerFirst(inst) ==
    IF Has(inst, "docker") THEN "docker"
    ELSE IF Has(inst, "nodejs") THEN "nodejs"
    ELSE IF Has(inst, "python") THEN "python"
    ELSE "web"

\* The fallback of lines 222-230: the type when application.type is absent.
InferAppType(inst) ==
    IF Has(inst, "nodejs") THEN "nodejs"
    ELSE IF Has(inst, "python") THEN "python"
    ELSE IF Has(inst, "docker") THEN "docker"
    ELSE "web"

\* GetTargetDirectory with the installed runtimes tested before the direct
\* mapping of the type.
GetTargetDirectoryInstalledFirst(cfg_type, inst, a_root, n_root) ==
    LET app_type == IF cfg_type = None THEN InferAppType(inst) ELSE cfg_type
    IN  IF Has(inst, "nodejs") THEN "/opt/nodejs-app"
        ELSE IF Has(inst, "python") THEN "/opt/python-app"
        ELSE IF app_type \in DOMAIN APP_TYPE_DIRS THEN APP_TYPE_DIRS[app_type]
        ELSE IF app_type \in {"web", "api", "static"}
        THEN IF Has(inst, "apache") THEN ConfigGet(a_root, "/var/www/html")
             ELSE IF Has(inst, "nginx") THEN ConfigGet(n_root, "/var/www/html")
             ELSE "/var/www/html"
        ELSE "/opt/app"

\* GetTargetDirectory with the web servers tested before the runtimes.
GetTargetDirectoryWebServerFirst(cfg_type, inst, a_root, n_root) ==
    LET app_type == IF cfg_type = None THEN InferAppType(inst) ELSE cfg_type
    IN  IF app_type \in DOMAIN APP_TYPE_DIRS THEN APP_TYPE_DIRS[app_type]
        ELSE IF app_type \in {"web", "api", "static"}
        THEN IF Has(inst, "apache") THEN ConfigGet(a_root, "/var/www/html")
             ELSE IF Has(inst, "nginx") THEN ConfigGet(n_root, "/var/www/html")
             ELSE IF Has(inst, "nodejs") THEN "/opt/nodejs-app"
             ELSE IF Has(inst, "python") THEN "/opt/python-app"
             ELSE "/var/www/html"
        ELSE "/opt/app"

GetTargetDirectory(cfg_type, inst, a_root, n_root) ==
    LET app_type == IF cfg_type = None THEN InferAppType(inst) ELSE cfg_type
    IN  IF app_type \in DOMAIN APP_TYPE_DIRS THEN APP_TYPE_DIRS[app_type]
        ELSE IF app_type \in {"web", "api", "static"}
        THEN IF Has(inst, "nodejs") THEN "/opt/nodejs-app"
             ELSE IF Has(inst, "python") THEN "/opt/python-app"
             ELSE IF Has(inst, "apache") THEN ConfigGet(a_root, "/var/www/html")
             ELSE IF Has(inst, "nginx") THEN ConfigGet(n_root, "/var/www/html")
             ELSE "/var/www/html"
        ELSE "/opt/app"

\* OSDetector.get_user_info(os_type): the accounts of an OS family.
UserInfo(os) ==
    IF os = "amazon_linux"
    THEN [ default_user |-> "ec2-user", web_user |-> "apache", web_group |-> "apache" ]
    ELSE [ default_user |-> "ubuntu", web_user |-> "www-data", web_group |-> "www-data" ]

\* getattr(self.client, 'os_type', 'ubuntu')
ClientOsType(os) == IF os = Unset THEN "ubuntu" ELSE os

\* GetFileOwner with the web servers tested before the target directory.
GetFileOwnerWebServerFirst(dir, inst, os) ==
    LET user_info == UserInfo(ClientOsType(os))
    IN  IF \E dep \in {"apache", "nginx"} : Has(inst, dep)
        THEN << user_info.web_user, user_info.web_group >>
        ELSE << user_info.default_user, user_info.default_user >>

\* Lines 265-284: the owner as the pair << user, group >>.
GetFileOwner(dir, inst, os) ==
    LET user_info == UserInfo(ClientOsType(os))
    IN  IF dir \in {"/opt/nodejs-app", "/opt/python-app", "/opt/docker-app", "/opt/app"}
        THEN << user_info.default_user, user_info.default_user >>
        ELSE IF \E dep \in {"apache", "nginx"} : Has(inst, dep)
        THEN << user_info.web_user, user_info.web_group >>
        ELSE << user_info.default_user, user_info.default_user >>

-----------------------------------------------------------------------------
(* ConfiguratorFactory.create_configurators *)

\* The stack components that have a configuration module.
RecognizedComponents ==
    { "apache", "nginx", "mysql", "postgresql", "php", "python", "nodejs", "docker" }

RECURSIVE Dedup(_)
Dedup(list) ==
    IF list = << >> THEN << >>
    ELSE LET rest == Dedup(SubSeq(list, 1, Len(list) - 1))
             last == list[Len(list)]
         IN  IF Has(rest, last) THEN rest ELSE Append(rest, last)

\* One module per recognized component of the installed list, in list order.
CreateConfigurators(inst) ==
    LET Recognized(n) == n \in RecognizedComponents
    IN  SelectSeq(Dedup(inst), Recognized)


-----------------------------------------------------------------------------
(* The run: main, GenericPostDeployer.__init__, deploy_application *)

Nil == "nil"

Step(name, arg) == [ step |-> name, arg |-> arg ]

\* A remote command, an upload or a module may fail (or time out) here.
CanFail == Cardinality(failed) < MaxFaults

Steps == { trace[i].step : i \in DOMAIN trace }

Init ==
    /\ pc = "parse_args"
    /\ env_args = << >>
    /\ env_vars = {}
    /\ dep_steps_enabled = TRUE
    /\ enabled = {}
    /\ lines = << >>
    /\ installed = << >>
    /\ verify = FALSE
    /\ cleanup = FALSE
    /\ docker_enabled = FALSE
    /\ use_docker = FALSE
    /\ declared_type = Nil
    /\ apache_root = Nil
    /\ nginx_root = Nil
    /\ os_type = Nil
    /\ target_dir = Nil
    /\ owner = << >>
    /\ configurators = << >>
    /\ cfg_results = << >>
    /\ success = TRUE
    /\ attempt = 0
    /\ verify_outcome = Nil
    /\ result = Nil
    /\ exit_status = -1
    /\ trace = << >>
    /\ failed = {}
    /\ package_files = << >>
    /\ expected_dirs = << >>
    /\ extracted = {}
    /\ with_build = {}
    /\ target_state = "absent"
    /\ extracted_dir = ""

\* The exit status of the argument parser when it ends the process itself:
\* parser.error() exits with 2, the help action with 0.
ParserExit(outcome) == IF outcome = "usage_error" THEN 2 ELSE 0

\* main, lines 773-784: parser.parse_args() accepts the command line, or it
\* ends the process (a missing package_file or an unknown option is a usage
\* error, -h prints the help); the call is outside the try block.
ParseArgs ==
    /\ pc = "parse_args"
    /\ \/ /\ pc' = "load_config"
          /\ UNCHANGED << exit_status, trace >>
       \/ \E outcome \in {"usage_error", "help"} :
             /\ trace' = Append(trace, Step("parse_args", outcome))
             /\ exit_status' = ParserExit(outcome)
             /\ pc' = "exited"
    /\ UNCHANGED << env_args, env_vars, dep_steps_enabled, enabled, lines,
                    installed, verify, cleanup, docker_enabled, use_docker,
                    declared_type, apache_root, nginx_root, os_type, script_vars, target_dir,
                    owner, configurators, cfg_results, success, attempt,
                    verify_outcome, result, failed >>

\* main, lines 786-789: DeploymentConfig(config_file=...) returns or raises.
LoadConfig ==
    /\ pc = "load_config"
    /\ \/ /\ pc' = "parse_env"
          /\ UNCHANGED << failed, exit_status >>
       \/ /\ CanFail
          /\ failed' = failed \cup {"load_config"}
          /\ exit_status' = 1
          /\ pc' = "exited"
    /\ UNCHANGED << env_args, env_vars, dep_steps_enabled, enabled, lines,
                    installed, verify, cleanup, docker_enabled, use_docker,
                    declared_type, apache_root, nginx_root, os_type, script_vars, target_dir,
                    owner, configurators, cfg_results, success, attempt,
                    verify_outcome, result, trace >>

\* '=' in env_var
WellFormed(item) == item = "KEY=VALUE"

\* env_var.split('=', 1)[0]
EnvKey(item) == "KEY"

EnvArgLists ==
    UNION { [1..n -> EnvItems] : n \in 0..MaxEnvArgs }

ParseEnvVarsUnchecked(items) ==
    { EnvKey(items[i]) : i \in DOMAIN items }

\* main, lines 801-807: the dict built from the --env items.
ParseEnvVars(items) ==
    { EnvKey(items[i]) : i \in { j \in DOMAIN items : WellFormed(items[j]) } }

ParseEnv ==
    /\ pc = "parse_env"
    /\ \E items \in EnvArgLists :
          /\ env_args' = items
          /\ env_vars' = ParseEnvVars(items)
    /\ pc' = "read_toggle"
    /\ UNCHANGED << dep_steps_enabled, enabled, lines, installed, verify,
                    cleanup, docker_enabled, use_docker, declared_type,
                    apache_root, nginx_root, os_type, script_vars, target_dir, owner,
                    configurators, cfg_results, success, attempt,
                    verify_outcome, result, exit_status, trace, failed >>

\* main, lines 809-811: the toggle is read and a message is printed.
ReadToggle ==
    /\ pc = "read_toggle"
    /\ \E b \in BOOLEAN : dep_steps_enabled' = b
    /\ pc' = "construct"
    /\ UNCHANGED << env_args, env_vars, enabled, lines, installed, verify,
                    cleanup, docker_enabled, use_docker, declared_type,
                    apache_root, nginx_root, os_type, script_vars, target_dir, owner,
                    configurators, cfg_results, success, attempt,
                    verify_outcome, result, exit_status, trace, failed >>

\* Construct with _detect_installed_dependencies raising when the probe
\* command fails, so that __init__ raises and main exits with 1.
ConstructProbeFailureRaises ==
    /\ pc = "construct"
    /\ \/ /\ CanFail
          /\ failed' = failed \cup {"construct"}
          /\ exit_status' = 1
          /\ pc' = "exited"
          /\ UNCHANGED << enabled, lines, trace >>
       \/ /\ \E e \in EnabledSets : enabled' = e
          /\ trace' = Append(trace, Step("detect", ""))
          /\ \/ /\ \E h \in Hosts : lines' = ProbeOutput(h)
                /\ pc' = "detect"
                /\ UNCHANGED << failed, exit_status >>
             \/ /\ CanFail
                /\ failed' = failed \cup {"detect"}
                /\ lines' = << >>
                /\ exit_status' = 1
                /\ pc' = "exited"
    /\ UNCHANGED << env_args, env_vars, dep_steps_enabled, installed, verify,
                    cleanup, docker_enabled, use_docker, declared_type,
                    apache_root, nginx_root, os_type, script_vars, target_dir, owner,
                    configurators, cfg_results, success, attempt,
                    verify_outcome, result >>

\* __init__ and lines 50-83 of _detect_installed_dependencies: the
\* collaborators are built (or raise), the enabled names are read and the
\* probe is run; on success its output is split into lines.
Construct ==
    /\ pc = "construct"
    /\ \/ /\ CanFail
          /\ failed' = failed \cup {"construct"}
          /\ exit_status' = 1
          /\ pc' = "exited"
          /\ UNCHANGED << enabled, lines, trace >>
       \/ /\ \E e \in EnabledSets : enabled' = e
          /\ trace' = Append(trace, Step("detect", ""))
          /\ pc' = "detect"
          /\ UNCHANGED exit_status
          /\ \/ /\ \E h \in Hosts : lines' = ProbeOutput(h)
                /\ UNCHANGED failed
             \/ /\ CanFail
                /\ failed' = failed \cup {"detect"}
                /\ lines' = << >>
    /\ UNCHANGED << env_args, env_vars, dep_steps_enabled, installed, verify,
                    cleanup, docker_enabled, use_docker, declared_type,
                    apache_root, nginx_root, os_type, script_vars, target_dir, owner,
                    configurators, cfg_results, success, attempt,
                    verify_outcome, result >>

\* Lines 84-88: one iteration of the loop over the output lines.
DetectLine ==
    /\ pc = "detect"
    /\ lines # << >>
    /\ installed' = ParseLine(installed, Head(lines), enabled)
    /\ lines' = Tail(lines)
    /\ UNCHANGED << pc, env_args, env_vars, dep_steps_enabled, enabled, verify,
                    cleanup, docker_enabled, use_docker, declared_type,
                    apache_root, nginx_root, os_type, script_vars, target_dir, owner,
                    configurators, cfg_results, success, attempt,
                    verify_outcome, result, exit_status, trace, failed >>

\* UseDockerDeployment without the test of dependencies.docker.enabled.
UseDockerDeploymentModeOnly(d_enabled, d_use) == d_use

\* Whether deploy_application takes the container path (lines 107-108).
UseDockerDeployment(d_enabled, d_use) == d_enabled /\ d_use

\* main, lines 822-827, and deploy_application to line 108: the call, with
\* its arguments, and the two configuration keys that choose the path.
CallDeploy ==
    /\ pc = "detect"
    /\ lines = << >>
    /\ \E v, c, d, u \in BOOLEAN :
          /\ verify' = v
          /\ cleanup' = c
          /\ docker_enabled' = d
          /\ use_docker' = u
    /\ pc' = "mode"
    /\ UNCHANGED << env_args, env_vars, dep_steps_enabled, enabled, lines,
                    installed, declared_type, apache_root, nginx_root, os_type, script_vars,
                    target_dir, owner, configurators, cfg_results, success,
                    attempt, verify_outcome, result, exit_status, trace, failed >>


\* deploy_application raises before it has chosen a path (lines 97-117: the
\* reads of the configuration, get_docker_configurator); nothing in
\* deploy_application catches it, so it reaches main's handler (lines
\* 836-840).
DeployRaises ==
    /\ pc = "mode"
    /\ CanFail
    /\ failed' = failed \cup {"deploy"}
    /\ exit_status' = 1
    /\ pc' = "exited"
    /\ UNCHANGED << env_args, env_vars, dep_steps_enabled, enabled, lines,
                    installed, verify, cleanup, docker_enabled, use_docker,
                    declared_type, apache_root, nginx_root, os_type, script_vars, target_dir,
                    owner, configurators, cfg_results, success, attempt,
                    verify_outcome, result, trace >>

\* DockerDeploy going on to the post-steps after a failed container deployment.
DockerDeployFailureContinues ==
    /\ pc = "mode"
    /\ UseDockerDeployment(docker_enabled, use_docker)
    /\ trace' = Append(trace, Step("docker_deploy", ""))
    /\ \/ /\ success' = TRUE
          /\ pc' = "env"
          /\ UNCHANGED << failed >>
       \/ /\ CanFail
          /\ failed' = failed \cup {"docker_deploy"}
          /\ success' = FALSE
          /\ pc' = "env"
    /\ UNCHANGED << env_args, env_vars, dep_steps_enabled, enabled, lines,
                    installed, verify, cleanup, docker_enabled, use_docker,
                    declared_type, apache_root, nginx_root, os_type, script_vars, target_dir,
                    owner, configurators, cfg_results, attempt, verify_outcome,
                    result, exit_status >>

\* DockerDeploy returning True right after a successful container deployment.
DockerDeployReturnsEarly ==
    /\ pc = "mode"
    /\ UseDockerDeployment(docker_enabled, use_docker)
    /\ trace' = Append(trace, Step("docker_deploy", ""))
    /\ \/ /\ success' = TRUE
          /\ pc' = "return"
          /\ UNCHANGED << failed, result >>
       \/ /\ CanFail
          /\ failed' = failed \cup {"docker_deploy"}
          /\ success' = FALSE
          /\ result' = "False"
          /\ pc' = "returned"
    /\ UNCHANGED << env_args, env_vars, dep_steps_enabled, enabled, lines,
                    installed, verify, cleanup, docker_enabled, use_docker,
                    declared_type, apache_root, nginx_root, os_type, script_vars, target_dir,
                    owner, configurators, cfg_results, attempt, verify_outcome,
                    exit_status >>

\* Lines 110-125: the container path.  deploy_with_docker reports success or
\* failure; on failure deploy_application returns False.
DockerDeploy ==
    /\ pc = "mode"
    /\ UseDockerDeployment(docker_enabled, use_docker)
    /\ trace' = Append(trace, Step("docker_deploy", ""))
    /\ \/ /\ success' = TRUE
          /\ pc' = "env"
          /\ UNCHANGED << failed, result >>
       \/ /\ CanFail
          /\ failed' = failed \cup {"docker_deploy"}
          /\ success' = FALSE
          /\ result' = "False"
          /\ pc' = "returned"
    /\ UNCHANGED << env_args, env_vars, dep_steps_enabled, enabled, lines,
                    installed, verify, cleanup, docker_enabled, use_docker,
                    declared_type, apache_root, nginx_root, os_type, script_vars, target_dir,
                    owner, configurators, cfg_results, attempt, verify_outcome,
                    exit_status >>

\* Lines 126-133 and 286-300: the traditional path enters
\* _deploy_application_files, which resolves the target directory.  This is
\* the one place of a run that reads application.type and the document roots;
\* declared_type, target_dir and owner are kept until the function returns.
ResolveTarget ==
    /\ pc = "mode"
    /\ ~UseDockerDeployment(docker_enabled, use_docker)
    /\ \E t \in AppTypes, a, n \in DocRoots :
          /\ declared_type' = t
          /\ target_dir' = GetTargetDirectory(t, installed, a, n)
    /\ pc' = "upload"
    /\ UNCHANGED << env_args, env_vars, dep_steps_enabled, enabled, lines,
                    installed, verify, cleanup, docker_enabled, use_docker,
                    apache_root, nginx_root, os_type, script_vars, owner, configurators,
                    cfg_results, success, attempt, verify_outcome, result,
                    exit_status, trace, failed >>

\* Upload going on to the deployment script after a failed upload.
UploadContinues ==
    /\ pc = "upload"
    /\ trace' = Append(trace, Step("upload", ""))
    /\ \/ UNCHANGED failed
       \/ /\ CanFail
          /\ failed' = failed \cup {"upload"}
    /\ pc' = "build_script"
    /\ UNCHANGED << env_args, env_vars, dep_steps_enabled, enabled, lines,
                    installed, verify, cleanup, docker_enabled, use_docker,
                    declared_type, apache_root, nginx_root, os_type, script_vars, target_dir,
                    owner, configurators, cfg_results, success, attempt,
                    verify_outcome, result, exit_status >>

\* Lines 302-309: the package is uploaded; a failed upload returns False from
\* _deploy_application_files and (lines 134-136) from deploy_application.
Upload ==
    /\ pc = "upload"
    /\ trace' = Append(trace, Step("upload", ""))
    /\ \/ /\ pc' = "build_script"
          /\ UNCHANGED << failed, success, result, declared_type, target_dir >>
       \/ /\ CanFail
          /\ failed' = failed \cup {"upload"}
          /\ success' = FALSE
          /\ result' = "False"
          /\ declared_type' = Nil
          /\ target_dir' = Nil
          /\ pc' = "returned"
    /\ UNCHANGED << env_args, env_vars, dep_steps_enabled, enabled, lines,
                    installed, verify, cleanup, docker_enabled, use_docker,
                    apache_root, nginx_root, os_type, script_vars, owner, configurators,
                    cfg_results, attempt, verify_outcome, exit_status >>

\* BuildScript resolving the owner of a directory it resolves again, with
\* application.type read as deploy_application reads it (default 'web').
BuildScriptResolvesAgain ==
    /\ pc = "build_script"
    /\ \E o \in OsTypes, a, n \in DocRoots :
          owner' = GetFileOwner(
                       GetTargetDirectory(ConfigGet(IF declared_type = None
                                                    THEN Unset ELSE declared_type,
                                                    "web"),
                                          installed, a, n),
                       installed, o)
    /\ pc' = "deploy_script"
    /\ UNCHANGED << env_args, env_vars, dep_steps_enabled, enabled, lines,
                    installed, verify, cleanup, docker_enabled, use_docker,
                    declared_type, apache_root, nginx_root, os_type, script_vars, target_dir,
                    configurators, cfg_results, success, attempt,
                    verify_outcome, result, exit_status, trace, failed >>

\* Lines 311-421: the deployment script is built; line 397 resolves the owner
\* of the target directory.
BuildScript ==
    /\ pc = "build_script"
    /\ \E o \in OsTypes : owner' = GetFileOwner(target_dir, installed, o)
    /\ pc' = "deploy_script"
    /\ UNCHANGED << env_args, env_vars, dep_steps_enabled, enabled, lines,
                    installed, verify, cleanup, docker_enabled, use_docker,
                    declared_type, apache_root, nginx_root, os_type, script_vars, target_dir,
                    configurators, cfg_results, success, attempt,
                    verify_outcome, result, exit_status, trace, failed >>

\* Lines 423-424 and 133-136: the deployment script runs on the host; its
\* failure (or timeout) makes deploy_application return False.
RunDeployScript ==
    /\ pc = "deploy_script"
    /\ trace' = Append(trace, Step("deploy_script", ""))
    /\ \/ /\ success' = TRUE
          /\ pc' = "configure"
          /\ UNCHANGED << failed, result >>
       \/ /\ CanFail
          /\ failed' = failed \cup {"deploy_script"}
          /\ success' = FALSE
          /\ result' = "False"
          /\ pc' = "returned"
    /\ declared_type' = Nil
    /\ target_dir' = Nil
    /\ owner' = << >>
    /\ UNCHANGED << env_args, env_vars, dep_steps_enabled, enabled, lines,
                    installed, verify, cleanup, docker_enabled, use_docker,
                    apache_root, nginx_root, os_type, script_vars, configurators,
                    cfg_results, attempt, verify_outcome, exit_status >>

\* ConfigureStart running detection a second time on the same host: every
\* entry of the installed list is appended again.
ConfigureStartDetectsAgain ==
    /\ pc = "configure"
    /\ installed' = installed \o installed
    /\ configurators' = CreateConfigurators(installed)
    /\ cfg_results' = << >>
    /\ success' = TRUE
    /\ pc' = IF CreateConfigurators(installed) = << >>
             THEN "app_config" ELSE "configure_loop"
    /\ UNCHANGED << env_args, env_vars, dep_steps_enabled, enabled, lines,
                    verify, cleanup, docker_enabled, use_docker,
                    declared_type, apache_root, nginx_root, os_type, script_vars, target_dir,
                    owner, attempt, verify_outcome, result, exit_status, trace,
                    failed >>

\* Lines 426-444: the configurators are created; with none of them
\* _configure_application returns True at once.
ConfigureStart ==
    /\ pc = "configure"
    /\ configurators' = CreateConfigurators(installed)
    /\ cfg_results' = << >>
    /\ success' = TRUE
    /\ pc' = IF CreateConfigurators(installed) = << >>
             THEN "app_config" ELSE "configure_loop"
    /\ UNCHANGED << env_args, env_vars, dep_steps_enabled, enabled, lines,
                    installed, verify, cleanup, docker_enabled, use_docker,
                    declared_type, apache_root, nginx_root, os_type, script_vars, target_dir,
                    owner, attempt, verify_outcome, result, exit_status, trace,
                    failed >>

\* What a configurator's configure() can do.
ConfigureOutcomes == { "true", "false", "raise" }

\* Lines 449-457: the aggregate after one configurator did `outcome`.
Aggregate(so_far, outcome) == so_far /\ outcome = "true"

\* ConfigureStep without the try/except: what a configurator raises leaves
\* deploy_application and reaches main's handler, which exits with 1.
ConfigureStepPropagates ==
    /\ pc = "configure_loop"
    /\ Len(cfg_results) < Len(configurators)
    /\ \E o \in ConfigureOutcomes :
          /\ o # "true" => CanFail
          /\ cfg_results' = Append(cfg_results, o)
          /\ success' = Aggregate(success, o)
          /\ failed' = IF o = "true" THEN failed ELSE failed \cup {"configure"}
          /\ pc' = IF o = "raise" THEN "exited" ELSE pc
          /\ exit_status' = IF o = "raise" THEN 1 ELSE exit_status
    /\ trace' = Append(trace, Step("configure", configurators[Len(cfg_results) + 1]))
    /\ UNCHANGED << env_args, env_vars, dep_steps_enabled, enabled, lines,
                    installed, verify, cleanup, docker_enabled, use_docker,
                    declared_type, apache_root, nginx_root, os_type, script_vars, target_dir,
                    owner, configurators, attempt, verify_outcome, result >>

\* Lines 445-457: one iteration of the loop over the configurators.
ConfigureStep ==
    /\ pc = "configure_loop"
    /\ Len(cfg_results) < Len(configurators)
    /\ \E o \in ConfigureOutcomes :
          /\ o # "true" => CanFail
          /\ cfg_results' = Append(cfg_results, o)
          /\ success' = Aggregate(success, o)
          /\ failed' = IF o = "true" THEN failed ELSE failed \cup {"configure"}
    /\ trace' = Append(trace, Step("configure", configurators[Len(cfg_results) + 1]))
    /\ UNCHANGED << pc, env_args, env_vars, dep_steps_enabled, enabled, lines,
                    installed, verify, cleanup, docker_enabled, use_docker,
                    declared_type, apache_root, nginx_root, os_type, script_vars, target_dir,
                    owner, configurators, attempt, verify_outcome, result,
                    exit_status >>

\* ConfigureReturn with deploy_application returning False on a False
\* aggregate, as it does after a failed file deployment.
ConfigureReturnAborts ==
    /\ pc = "configure_loop"
    /\ Len(cfg_results) = Len(configurators)
    /\ configurators' = << >>
    /\ cfg_results' = << >>
    /\ pc' = IF success THEN "app_config" ELSE "returned"
    /\ result' = IF success THEN result ELSE "False"
    /\ UNCHANGED << env_args, env_vars, dep_steps_enabled, enabled, lines,
                    installed, verify, cleanup, docker_enabled, use_docker,
                    declared_type, apache_root, nginx_root, os_type, script_vars, target_dir,
                    owner, success, attempt, verify_outcome, exit_status, trace,
                    failed >>

\* Lines 459 and 142-144: the loop is over, _configure_application returns
\* its aggregate and deploy_application prints a warning if it is False.
ConfigureReturn ==
    /\ pc = "configure_loop"
    /\ Len(cfg_results) = Len(configurators)
    /\ configurators' = << >>
    /\ cfg_results' = << >>
    /\ pc' = "app_config"
    /\ UNCHANGED << env_args, env_vars, dep_steps_enabled, enabled, lines,
                    installed, verify, cleanup, docker_enabled, use_docker,
                    declared_type, apache_root, nginx_root, os_type, script_vars, target_dir,
                    owner, success, attempt, verify_outcome, result,
                    exit_status, trace, failed >>

\* CommandStep with deploy_application returning False when the command fails.
CommandStepAborts(at, name, next) ==
    /\ pc = at
    /\ trace' = Append(trace, Step(name, ""))
    /\ \/ /\ success' = TRUE
          /\ pc' = next
          /\ UNCHANGED << failed, result >>
       \/ /\ CanFail
          /\ failed' = failed \cup {name}
          /\ success' = FALSE
          /\ result' = "False"
          /\ pc' = "returned"
    /\ UNCHANGED << env_args, env_vars, dep_steps_enabled, enabled, lines,
                    installed, verify, cleanup, docker_enabled, use_docker,
                    declared_type, apache_root, nginx_root, os_type, script_vars, target_dir,
                    owner, configurators, cfg_results, attempt, verify_outcome,
                    exit_status >>

\* A step that runs one remote command and keeps its success in `success`
\* without returning: the step named `name` at `at`, followed by `next`.
CommandStep(at, name, next) ==
    /\ pc = at
    /\ trace' = Append(trace, Step(name, ""))
    /\ \/ /\ success' = TRUE
          /\ UNCHANGED failed
       \/ /\ CanFail
          /\ failed' = failed \cup {name}
          /\ success' = FALSE
    /\ pc' = next
    /\ UNCHANGED << env_args, env_vars, dep_steps_enabled, enabled, lines,
                    installed, verify, cleanup, docker_enabled, use_docker,
                    declared_type, apache_root, nginx_root, os_type, script_vars, target_dir,
                    owner, configurators, cfg_results, attempt, verify_outcome,
                    result, exit_status >>

\* IgnoredStep with deploy_application returning False when the command
\* fails.
IgnoredStepAborts(at, name, next) ==
    /\ pc = at
    /\ trace' = Append(trace, Step(name, ""))
    /\ \/ /\ pc' = next
          /\ UNCHANGED << failed, result >>
       \/ /\ CanFail
          /\ failed' = failed \cup {name}
          /\ result' = "False"
          /\ pc' = "returned"
    /\ UNCHANGED << env_args, env_vars, dep_steps_enabled, enabled, lines,
                    installed, verify, cleanup, docker_enabled, use_docker,
                    declared_type, apache_root, nginx_root, os_type, script_vars, target_dir,
                    owner, configurators, cfg_results, success, attempt,
                    verify_outcome, exit_status >>

\* A step that runs one remote command and drops its outcome.
IgnoredStep(at, name, next) ==
    /\ pc = at
    /\ trace' = Append(trace, Step(name, ""))
    /\ \/ UNCHANGED failed
       \/ /\ CanFail
          /\ failed' = failed \cup {name}
    /\ pc' = next
    /\ UNCHANGED << env_args, env_vars, dep_steps_enabled, enabled, lines,
                    installed, verify, cleanup, docker_enabled, use_docker,
                    declared_type, apache_root, nginx_root, os_type, script_vars, target_dir,
                    owner, configurators, cfg_results, success, attempt,
                    verify_outcome, result, exit_status >>

\* A step that is not taken.
SkipStep(at, next) ==
    /\ pc = at
    /\ pc' = next
    /\ UNCHANGED << env_args, env_vars, dep_steps_enabled, enabled, lines,
                    installed, verify, cleanup, docker_enabled, use_docker,
                    declared_type, apache_root, nginx_root, os_type, script_vars, target_dir,
                    owner, configurators, cfg_results, success, attempt,
                    verify_outcome, result, exit_status, trace, failed >>

\* SetupAppSpecificConfig calling restart_services where the app-specific
\* setup belongs.
SetupAppSpecificConfigRestarts == CommandStep("app_config", "restart", "restart")

\* Lines 146-154 and 461-500.
SetupAppSpecificConfig == CommandStep("app_config", "app_config", "restart")

\* Lines 156-162.
RestartServices == CommandStep("restart", "restart", "service_check")

\* Lines 164-179: the status of the application services is printed.
ServiceCheck == IgnoredStep("service_check", "service_check", "env")

\* Lines 181-184 and 502-550.
SetDeploymentEnvVars == env_vars # {} /\ IgnoredStep("env", "env", "verify")

SkipEnvVars == env_vars = {} /\ SkipStep("env", "verify")


\* The attempts of the verification script's loop: for i in {1..5}.
MaxAttempts == 5

\* Lines 186-191 and 552-612: _verify_deployment starts the verification
\* script on the host.
VerifyStart ==
    /\ pc = "verify"
    /\ verify
    /\ trace' = Append(trace, Step("verify", ""))
    /\ attempt' = 0
    /\ pc' = "verify_loop"
    /\ UNCHANGED << env_args, env_vars, dep_steps_enabled, enabled, lines,
                    installed, verify, cleanup, docker_enabled, use_docker,
                    declared_type, apache_root, nginx_root, os_type, script_vars, target_dir,
                    owner, configurators, cfg_results, success, verify_outcome,
                    result, exit_status, failed >>

\* How the script stands after attempt number i, given whether the response
\* body held the expected text: exit 0 at a match, the next attempt
\* otherwise, and after the last one the warning and the normal end.
AfterAttempt(i, matched) ==
    IF matched THEN "matched"
    ELSE IF i = MaxAttempts THEN "exhausted"
    ELSE Nil

\* HttpAttempt without the `exit 0` of line 600: a matching response is
\* reported and the loop goes on to the next attempt.
HttpAttemptContinues ==
    /\ pc = "verify_loop"
    /\ attempt < MaxAttempts
    /\ attempt' = attempt + 1
    /\ \E matched \in BOOLEAN :
          /\ verify_outcome' =
                IF matched \/ verify_outcome = "matched" THEN "matched"
                ELSE AfterAttempt(attempt + 1, matched)
          /\ pc' = IF attempt + 1 = MaxAttempts
                   THEN "verify_return" ELSE "verify_loop"
    /\ UNCHANGED << env_args, env_vars, dep_steps_enabled, enabled, lines,
                    installed, verify, cleanup, docker_enabled, use_docker,
                    declared_type, apache_root, nginx_root, os_type, script_vars, target_dir,
                    owner, configurators, cfg_results, success, result,
                    exit_status, trace, failed >>

\* HttpAttempt with a loop that starts over after its last attempt.
HttpAttemptStartsOver ==
    /\ pc = "verify_loop"
    /\ attempt' = (attempt % MaxAttempts) + 1
    /\ \E matched \in BOOLEAN :
          /\ verify_outcome' = IF matched THEN "matched" ELSE Nil
          /\ pc' = IF matched THEN "verify_return" ELSE "verify_loop"
    /\ UNCHANGED << env_args, env_vars, dep_steps_enabled, enabled, lines,
                    installed, verify, cleanup, docker_enabled, use_docker,
                    declared_type, apache_root, nginx_root, os_type, script_vars, target_dir,
                    owner, configurators, cfg_results, success, result,
                    exit_status, trace, failed >>

\* Lines 597-604: one attempt of the loop.
HttpAttempt ==
    /\ pc = "verify_loop"
    /\ attempt < MaxAttempts
    /\ attempt' = attempt + 1
    /\ \E matched \in BOOLEAN :
          /\ verify_outcome' = AfterAttempt(attempt + 1, matched)
          /\ pc' = IF AfterAttempt(attempt + 1, matched) = Nil
                   THEN "verify_loop" ELSE "verify_return"
    /\ UNCHANGED << env_args, env_vars, dep_steps_enabled, enabled, lines,
                    installed, verify, cleanup, docker_enabled, use_docker,
                    declared_type, apache_root, nginx_root, os_type, script_vars, target_dir,
                    owner, configurators, cfg_results, success, result,
                    exit_status, trace, failed >>

\* Line 612: run_command gives up on the script (transport error, timeout).
VerifyCommandFails ==
    /\ pc = "verify_loop"
    /\ CanFail
    /\ failed' = failed \cup {"verify"}
    /\ verify_outcome' = "failed"
    /\ pc' = "verify_return"
    /\ UNCHANGED << env_args, env_vars, dep_steps_enabled, enabled, lines,
                    installed, verify, cleanup, docker_enabled, use_docker,
                    declared_type, apache_root, nginx_root, os_type, script_vars, target_dir,
                    owner, configurators, cfg_results, success, attempt, result,
                    exit_status, trace >>

\* What run_command reports for the verification script.
VerifySuccess(outcome) == outcome \in {"matched", "exhausted"}

\* VerifyReturn with deploy_application returning False unless a response
\* matched.
VerifyReturnAborts ==
    /\ pc = "verify_return"
    /\ success' = (verify_outcome = "matched")
    /\ attempt' = 0
    /\ pc' = IF verify_outcome = "matched" THEN "cleanup" ELSE "returned"
    /\ result' = IF verify_outcome = "matched" THEN result ELSE "False"
    /\ UNCHANGED << env_args, env_vars, dep_steps_enabled, enabled, lines,
                    installed, verify, cleanup, docker_enabled, use_docker,
                    declared_type, apache_root, nginx_root, os_type, script_vars, target_dir,
                    owner, configurators, cfg_results, verify_outcome,
                    exit_status, trace, failed >>

\* Lines 612-613 and 191-193: _verify_deployment returns.
VerifyReturn ==
    /\ pc = "verify_return"
    /\ success' = VerifySuccess(verify_outcome)
    /\ attempt' = 0
    /\ pc' = "cleanup"
    /\ UNCHANGED << env_args, env_vars, dep_steps_enabled, enabled, lines,
                    installed, verify, cleanup, docker_enabled, use_docker,
                    declared_type, apache_root, nginx_root, os_type, script_vars, target_dir,
                    owner, configurators, cfg_results, verify_outcome, result,
                    exit_status, trace, failed >>

SkipVerify == ~verify /\ SkipStep("verify", "cleanup")

\* Lines 195-200 and 615-632.
CleanupDeployment == cleanup /\ IgnoredStep("cleanup", "cleanup", "optimize")

SkipCleanup == ~cleanup /\ SkipStep("cleanup", "optimize")

\* Lines 202-206 and 634-682.
OptimizePerformance == IgnoredStep("optimize", "optimize", "return")

\* The value deploy_application returns at its end (line 215).
FinalResult(last_success) == "True"

\* Lines 208-215.
ReturnResult ==
    /\ pc = "return"
    /\ result' = FinalResult(success)
    /\ pc' = "returned"
    /\ UNCHANGED << env_args, env_vars, dep_steps_enabled, enabled, lines,
                    installed, verify, cleanup, docker_enabled, use_docker,
                    declared_type, apache_root, nginx_root, os_type, script_vars, target_dir,
                    owner, configurators, cfg_results, success, attempt,
                    verify_outcome, exit_status, trace, failed >>

\* ExitStatus reporting success whatever deploy_application returned.
ExitStatusIgnoresResult(deployed) == 0

\* main, lines 822-834: the exit status.
ExitStatus(deployed) == IF deployed = "True" THEN 0 ELSE 1

\* Lines 822-834: after a True result main prints the deployment summary,
\* which reads the deployer's state and writes none of it, and exits.
MainExit ==
    /\ pc = "returned"
    /\ exit_status' = ExitStatus(result)
    /\ pc' = "exited"
    /\ UNCHANGED << env_args, env_vars, dep_steps_enabled, enabled, lines,
                    installed, verify, cleanup, docker_enabled, use_docker,
                    declared_type, apache_root, nginx_root, os_type, script_vars, target_dir,
                    owner, configurators, cfg_results, success, attempt,
                    verify_outcome, result, trace, failed >>

Next ==
    \/ ParseArgs
    \/ LoadConfig
    \/ ParseEnv
    \/ ReadToggle
    \/ Construct
    \/ DetectLine
    \/ CallDeploy
    \/ DeployRaises
    \/ DockerDeploy
    \/ ResolveTarget
    \/ Upload
    \/ BuildScript
    \/ RunDeployScript
    \/ ConfigureStart
    \/ ConfigureStep
    \/ ConfigureReturn
    \/ SetupAppSpecificConfig
    \/ RestartServices
    \/ ServiceCheck
    \/ SetDeploymentEnvVars
    \/ SkipEnvVars
    \/ VerifyStart
    \/ HttpAttempt
    \/ VerifyCommandFails
    \/ VerifyReturn
    \/ SkipVerify
    \/ CleanupDeployment
    \/ SkipCleanup
    \/ OptimizePerformance
    \/ ReturnResult
    \/ MainExit

Spec == Init /\ [][Next]_vars


-----------------------------------------------------------------------------
(* The planning functions on their own: _get_target_directory and          *)
(* _get_file_owner applied to every configuration and installed list       *)

\* At most this many dependencies are enabled, and at most this many probes
\* are positive, when the planning functions are checked on their own.
MaxPlanDeps == 3

RECURSIVE ParseLines(_, _, _)
\* Lines 84-88: the whole loop over the output lines.
ParseLines(list, ls, enabled_deps) ==
    IF ls = << >> THEN list
    ELSE ParseLines(ParseLine(list, Head(ls), enabled_deps), Tail(ls), enabled_deps)

PlanHosts == { h \in SUBSET (DOMAIN ProbeCatalog) : Cardinality(h) <= MaxPlanDeps }

PlanEnabledSets == { e \in SUBSET DependencyNames : Cardinality(e) <= MaxPlanDeps }

\* The enabled set and the installed list that detection leaves, for every
\* configuration and host.
Detected ==
    { << e, ParseLines(<< >>, ProbeOutput(h), e) >> :
        e \in PlanEnabledSets, h \in PlanHosts }

\* The state after construction.
PlanInit ==
    /\ pc = "plan"
    /\ \E d \in Detected :
          /\ enabled = d[1]
          /\ installed = d[2]
    /\ declared_type \in AppTypes
    /\ apache_root \in DocRoots
    /\ nginx_root \in DocRoots
    /\ os_type \in OsTypes
    /\ env_args = << >>
    /\ env_vars = {}
    /\ dep_steps_enabled = TRUE
    /\ lines = << >>
    /\ verify = FALSE
    /\ cleanup = FALSE
    /\ docker_enabled = FALSE
    /\ use_docker = FALSE
    /\ target_dir = Nil
    /\ owner = << >>
    /\ configurators = << >>
    /\ cfg_results = << >>
    /\ success = TRUE
    /\ attempt = 0
    /\ verify_outcome = Nil
    /\ result = Nil
    /\ exit_status = -1
    /\ trace = << >>
    /\ failed = {}
    /\ package_files = << >>
    /\ expected_dirs = << >>
    /\ extracted = {}
    /\ with_build = {}
    /\ target_state = "absent"
    /\ extracted_dir = ""

\* Line 288: target_dir = self._get_target_directory()
PlanTarget ==
    /\ pc = "plan"
    /\ target_dir' = GetTargetDirectory(declared_type, installed, apache_root, nginx_root)
    /\ pc' = "plan_owner"
    /\ UNCHANGED << env_args, env_vars, dep_steps_enabled, enabled, lines,
                    installed, verify, cleanup, docker_enabled, use_docker,
                    declared_type, apache_root, nginx_root, os_type, script_vars, owner,
                    configurators, cfg_results, success, attempt,
                    verify_outcome, result, exit_status, trace, failed >>

\* Line 397: owner = self._get_file_owner(target_dir)
PlanOwner ==
    /\ pc = "plan_owner"
    /\ owner' = GetFileOwner(target_dir, installed, os_type)
    /\ pc' = "planned"
    /\ UNCHANGED << env_args, env_vars, dep_steps_enabled, enabled, lines,
                    installed, verify, cleanup, docker_enabled, use_docker,
                    declared_type, apache_root, nginx_root, os_type, script_vars, target_dir,
                    configurators, cfg_results, success, attempt,
                    verify_outcome, result, exit_status, trace, failed >>

PlanNext == PlanTarget \/ PlanOwner

PlanSpec == PlanInit /\ [][PlanNext]_vars

-----------------------------------------------------------------------------
(* deploy_application on its own, from its call to its return *)

\* The configurations and hosts of these runs: apache and python can be
\* enabled, and the probes for apache as a service (line 60), python3 on
\* PATH (line 74) and apache2 on PATH (line 77) can be positive.
DeployDetected ==
    { << e, ParseLines(<< >>, ProbeOutput(h), e) >> :
        e \in SUBSET { "apache", "python" }, h \in SUBSET { 1, 9, 12 } }

\* The state in which main calls deploy_application (line 822): the
\* deployer is constructed, detection is over, the arguments are given.
\* trace is the history of this call.
DeployInit ==
    /\ pc = "mode"
    /\ \E d \in DeployDetected :
          /\ enabled = d[1]
          /\ installed = d[2]
    /\ env_args \in EnvArgLists
    /\ env_vars = ParseEnvVars(env_args)
    /\ dep_steps_enabled \in BOOLEAN
    /\ verify \in BOOLEAN
    /\ cleanup \in BOOLEAN
    /\ docker_enabled \in BOOLEAN
    /\ use_docker \in BOOLEAN
    /\ lines = << >>
    /\ declared_type = Nil
    /\ apache_root = Nil
    /\ nginx_root = Nil
    /\ os_type = Nil
    /\ target_dir = Nil
    /\ owner = << >>
    /\ configurators = << >>
    /\ cfg_results = << >>
    /\ success = TRUE
    /\ attempt = 0
    /\ verify_outcome = Nil
    /\ result = Nil
    /\ exit_status = -1
    /\ trace = << >>
    /\ failed = {}
    /\ package_files = << >>
    /\ expected_dirs = << >>
    /\ extracted = {}
    /\ with_build = {}
    /\ target_state = "absent"
    /\ extracted_dir = ""

\* The steps of deploy_application (lines 90-215).
DeployNext ==
    \/ DeployRaises
    \/ DockerDeploy
    \/ ResolveTarget
    \/ Upload
    \/ BuildScript
    \/ RunDeployScript
    \/ ConfigureStart
    \/ ConfigureStep
    \/ ConfigureReturn
    \/ SetupAppSpecificConfig
    \/ RestartServices
    \/ ServiceCheck
    \/ SetDeploymentEnvVars
    \/ SkipEnvVars
    \/ VerifyStart
    \/ HttpAttempt
    \/ VerifyCommandFails
    \/ VerifyReturn
    \/ SkipVerify
    \/ CleanupDeployment
    \/ SkipCleanup
    \/ OptimizePerformance
    \/ ReturnResult

\* Every remote command and every configurator invocation returns: a step
\* of deploy_application that can be taken is taken.
DeploySpec == DeployInit /\ [][DeployNext]_vars /\ WF_vars(DeployNext)

-----------------------------------------------------------------------------
(* _deploy_application_files and the deployment script, on their own *)

MaxPackageFiles == 2

\* The directories a package may unpack into the home directory.
DirNames == { "app-a", "app-b", "example-x-app", "example-y-app", "build" }

\* find . -maxdepth 1 -type d -name "example-*-app"
WildcardNames == { "example-x-app", "example-y-app" }

\* Entries of application.package_files, as their '/'-separated fields:
\* "app-a/", "app-b/", "app-a/src", "app-b" and "/app-b".
PackageEntries ==
    { << "app-a", "" >>, << "app-b", "" >>, << "app-a", "src" >>,
      << "app-b" >>, << "", "app-b" >> }

PackageFileLists ==
    UNION { [ 1..n -> PackageEntries ] : n \in 0..MaxPackageFiles }

\* '/' in pf
HasSlash(pf) == Len(pf) >= 2

\* pf.rstrip('/'): the trailing slashes are the trailing empty fields.
RECURSIVE RStripSlash(_)
RStripSlash(pf) ==
    IF Len(pf) > 1 /\ pf[Len(pf)] = ""
    THEN RStripSlash(SubSeq(pf, 1, Len(pf) - 1))
    ELSE pf

\* pf.rstrip('/').split('/')[0]
DirNameOf(pf) == RStripSlash(pf)[1]

RECURSIVE ExpectedDirsFrom(_, _)
ExpectedDirsFrom(files, acc) ==
    IF files = << >> THEN acc
    ELSE LET pf == Head(files)
             dir_name == DirNameOf(pf)
         IN  IF HasSlash(pf) /\ dir_name # "" /\ ~ Has(acc, dir_name)
             THEN ExpectedDirsFrom(Tail(files), Append(acc, dir_name))
             ELSE ExpectedDirsFrom(Tail(files), acc)

\* Lines 292-300: the loop over package_files.
ExpectedDirs(files) == ExpectedDirsFrom(files, << >>)

\* The outcomes of: find . -maxdepth 1 -type d -name "example-*-app" | head -n 1
\* find lists the matches in directory order, so any match can be the first.
WildcardChoices(present) ==
    IF present \cap WildcardNames = {} THEN { "" }
    ELSE present \cap WildcardNames

DirChecksWildcardFirst(dirs, present) ==
    IF present \cap WildcardNames # {}
    THEN present \cap WildcardNames
    ELSE IF \E i \in 1..Len(dirs) : dirs[i] \in present
         THEN { dirs[CHOOSE i \in 1..Len(dirs) : dirs[i] \in present] }
         ELSE { "" }

\* Lines 312-330: the if/elif chain over expected_dirs, then the wildcard.
DirChecks(dirs, present) ==
    IF \E i \in 1..Len(dirs) : dirs[i] \in present
    THEN { dirs[CHOOSE i \in 1..Len(dirs) :
                   /\ dirs[i] \in present
                   /\ \A j \in 1..(i - 1) : dirs[j] \notin present] }
    ELSE WildcardChoices(present)

\* Lines 358-386: what is copied into the target directory.
CopySource(dir, present, built) ==
    IF dir # ""
    THEN IF dir \in built THEN << dir, "build" >> ELSE << dir >>
    ELSE IF "build" \in present THEN << "build" >> ELSE << >>

ScriptInit ==
    /\ pc = "expected_dirs"
    /\ target_dir \in { "/var/www/html", "/opt/app" }
    /\ package_files \in PackageFileLists
    /\ extracted \in SUBSET DirNames
    /\ with_build \in SUBSET (extracted \ { "build" })
    /\ target_state \in { "absent", "empty", "nonempty" }
    /\ expected_dirs = << >>
    /\ extracted_dir = ""
    /\ enabled = {}
    /\ installed = << >>
    /\ declared_type = Nil
    /\ apache_root = Nil
    /\ nginx_root = Nil
    /\ os_type = Nil
    /\ env_args = << >>
    /\ env_vars = {}
    /\ dep_steps_enabled = TRUE
    /\ lines = << >>
    /\ verify = FALSE
    /\ cleanup = FALSE
    /\ docker_enabled = FALSE
    /\ use_docker = FALSE
    /\ owner = << >>
    /\ configurators = << >>
    /\ cfg_results = << >>
    /\ success = TRUE
    /\ attempt = 0
    /\ verify_outcome = Nil
    /\ result = Nil
    /\ exit_status = -1
    /\ trace = << >>
    /\ failed = {}

\* What no step of the script touches.
ScriptFrame ==
    UNCHANGED << env_args, env_vars, dep_steps_enabled, enabled, lines,
                 installed, verify, cleanup, docker_enabled, use_docker,
                 declared_type, apache_root, nginx_root, os_type, target_dir,
                 owner, configurators, cfg_results, attempt, verify_outcome,
                 result, exit_status, package_files, extracted, with_build,
                 target_state >>

\* A command of the script fails: set -e (line 333) ends the script.
ScriptAbort(step) ==
    /\ CanFail
    /\ trace' = Append(trace, Step(step, << "failed" >>))
    /\ failed' = failed \cup { step }
    /\ success' = FALSE
    /\ pc' = "script_done"

\* Lines 292-300
CollectExpectedDirs ==
    /\ pc = "expected_dirs"
    /\ expected_dirs' = ExpectedDirs(package_files)
    /\ pc' = "backup"
    /\ UNCHANGED << extracted_dir, success, trace, failed >>
    /\ ScriptFrame

ScriptBackupUnlessAbsent ==
    /\ pc = "backup"
    /\ \/ /\ target_state # "absent"
          /\ \/ /\ trace' = Append(trace, Step("backup", << >>))
                /\ pc' = "extract"
                /\ UNCHANGED << failed, success >>
             \/ ScriptAbort("backup")
       \/ /\ target_state = "absent"
          /\ pc' = "extract"
          /\ UNCHANGED << trace, failed, success >>
    /\ UNCHANGED << expected_dirs, extracted_dir >>
    /\ ScriptFrame

\* Lines 337-342: the backup is taken when the target directory exists and
\* lists at least one entry; mkdir can end the script, the copy into the
\* backup directory cannot (|| true).
ScriptBackup ==
    /\ pc = "backup"
    /\ \/ /\ target_state = "nonempty"
          /\ \/ /\ trace' = Append(trace, Step("backup", << >>))
                /\ pc' = "extract"
                /\ UNCHANGED << failed, success >>
             \/ ScriptAbort("backup")
       \/ /\ target_state # "nonempty"
          /\ pc' = "extract"
          /\ UNCHANGED << trace, failed, success >>
    /\ UNCHANGED << expected_dirs, extracted_dir >>
    /\ ScriptFrame

\* Lines 346-347: cd ~; tar -xzf package_file
ScriptExtract ==
    /\ pc = "extract"
    /\ \/ /\ trace' = Append(trace, Step("extract", << >>))
          /\ pc' = "select"
          /\ UNCHANGED << failed, success >>
       \/ ScriptAbort("extract")
    /\ UNCHANGED << expected_dirs, extracted_dir >>
    /\ ScriptFrame

\* Line 353: the directory checks set EXTRACTED_DIR.
ScriptSelect ==
    /\ pc = "select"
    /\ extracted_dir' \in DirChecks(expected_dirs, extracted)
    /\ pc' = "copy"
    /\ UNCHANGED << expected_dirs, success, trace, failed >>
    /\ ScriptFrame

\* Lines 356-386: mkdir -p of the target, then one copy (|| true).
ScriptCopy ==
    /\ pc = "copy"
    /\ \/ /\ trace' = Append(trace,
                 Step("copy", CopySource(extracted_dir, extracted, with_build)))
          /\ pc' = "chown"
          /\ UNCHANGED << failed, success >>
       \/ ScriptAbort("mkdir_target")
    /\ UNCHANGED << expected_dirs, extracted_dir >>
    /\ ScriptFrame

\* Lines 406-420: chown and chmod, then the script ends.
ScriptChown ==
    /\ pc = "chown"
    /\ \/ /\ trace' = Append(trace, Step("chown", << >>))
          /\ pc' = "script_done"
          /\ UNCHANGED << failed, success >>
       \/ ScriptAbort("chown")
    /\ UNCHANGED << expected_dirs, extracted_dir >>
    /\ ScriptFrame

ScriptNext ==
    \/ CollectExpectedDirs
    \/ ScriptBackup
    \/ ScriptExtract
    \/ ScriptSelect
    \/ ScriptCopy
    \/ ScriptChown

ScriptSpec == ScriptInit /\ [][ScriptNext]_vars



-----------------------------------------------------------------------------
(* Properties of the run *)

Finished == pc = "exited"

\* The steps that follow file deployment on the traditional path.
StepsAfterFileDeployment ==
    { "configure", "app_config", "restart", "service_check",
      "env", "verify", "cleanup", "optimize" }

\* The steps that only the traditional path has.
TraditionalSteps ==
    { "upload", "deploy_script", "configure", "app_config", "restart" }

PostStepNames == { "env", "verify", "cleanup", "optimize" }

\* The post-steps that a run with these inputs has to execute, in order.
RequestedPostSteps ==
    (IF env_vars # {} THEN << "env" >> ELSE << >>)
    \o (IF verify THEN << "verify" >> ELSE << >>)
    \o (IF cleanup THEN << "cleanup" >> ELSE << >>)
    \o << "optimize" >>

\* The post-steps the run executed, in the order it executed them.
ExecutedPostSteps ==
    LET IsPost(e) == e.step \in PostStepNames
        post == SelectSeq(trace, IsPost)
    IN  [ i \in 1..Len(post) |-> post[i].step ]

\* The configurators the run invoked, in the order it invoked them.
InvokedConfigurators ==
    LET IsConfigure(e) == e.step = "configure"
        inv == SelectSeq(trace, IsConfigure)
    IN  [ i \in 1..Len(inv) |-> inv[i].arg ]

\* Every post-step the inputs request was executed.
RequestedPostStepsExecuted ==
    \A i \in DOMAIN RequestedPostSteps : RequestedPostSteps[i] \in Steps

\* C1: in every state of a run, every name of the installed list is in the
\* enabled set: detection adds no name the configuration did not enable.
C1_InstalledAreEnabled ==
    \A i \in DOMAIN installed : installed[i] \in enabled

\* C1 witness: detection has added an enabled name, and the next line to parse
\* is the marker of a component that is not enabled.
C1_Witness ==
    /\ pc = "detect"
    /\ installed # << >>
    /\ lines # << >>
    /\ HasInstalledMarker(Head(lines))
    /\ DepName(Head(lines)) \notin enabled

FileDeploymentFailed == "upload" \in failed \/ "deploy_script" \in failed

\* C2: when the upload or the deployment script fails, the run aborts there:
\* none of the later steps is executed, deploy_application returns False and
\* the exit status is 1; after a failed upload the deployment script is not
\* started.
C2_FileDeploymentFailureAborts ==
    /\ FileDeploymentFailed =>
          /\ Steps \cap StepsAfterFileDeployment = {}
          /\ pc \in {"returned", "exited"}
          /\ result = "False"
          /\ Finished => exit_status = 1
    /\ "upload" \in failed => "deploy_script" \notin Steps

\* C2 witness: a finished run whose upload failed.
C2_Witness ==
    /\ Finished
    /\ "upload" \in failed
    /\ exit_status = 1

\* The positions of deploy_application after _configure_application returned.
AfterDispatch ==
    { "app_config", "restart", "service_check", "env", "verify", "verify_loop",
      "verify_return", "cleanup", "optimize", "return", "returned", "exited" }

\* C3: the dispatch invokes the configurators of the list once each, in list
\* order, whatever the earlier ones did; a configurator that raises does not
\* end the loop; the aggregate is False iff one of them returned False or
\* raised.
C3_DispatchInvokesAllInOrder ==
    /\ pc = "configure_loop" =>
          /\ InvokedConfigurators = SubSeq(configurators, 1, Len(cfg_results))
          /\ success <=> (\A i \in DOMAIN cfg_results : cfg_results[i] = "true")
    /\ (pc \in AfterDispatch /\ "deploy_script" \in Steps
            /\ "deploy_script" \notin failed) =>
          InvokedConfigurators = CreateConfigurators(installed)
    /\ (pc = "app_config" /\ "deploy_script" \in Steps) =>
          (success <=> "configure" \notin failed)

\* C3 witness: the loop is over, the first of two configurators raised and the
\* second was invoked all the same.
C3_Witness ==
    /\ pc = "configure_loop"
    /\ Len(configurators) = 2
    /\ cfg_results = << "raise", "true" >>
    /\ ~success

\* C4 as stated: a run in which a configurator failed executes the remaining
\* steps and ends with the result False.
C4_ConfiguratorFailureFailsRun ==
    (Finished /\ "configure" \in failed) =>
        /\ result = "False"
        /\ {"app_config", "restart"} \subseteq Steps
        /\ RequestedPostStepsExecuted

\* C4 amended: a run in which a configurator failed executes the remaining
\* steps, and the failure is a warning only: deploy_application returns True
\* and the exit status is 0.
C4_ConfiguratorFailureIsWarning ==
    (Finished /\ "configure" \in failed) =>
        /\ result = "True"
        /\ exit_status = 0
        /\ {"app_config", "restart"} \subseteq Steps
        /\ RequestedPostStepsExecuted

\* C4 witness: a finished run in which a configurator failed.
C4_Witness ==
    /\ Finished
    /\ "configure" \in failed
    /\ "optimize" \in Steps

\* C5 as stated: after a failed app-specific setup or a failed restart the run
\* executes every later step and ends with the result False.
C5_DegradedFailureFailsRun ==
    (Finished /\ ("app_config" \in failed \/ "restart" \in failed)) =>
        /\ result = "False"
        /\ "restart" \in Steps
        /\ RequestedPostStepsExecuted

\* C5 amended: after a failed app-specific setup or a failed restart the run
\* executes every later step, and the result stays True (exit status 0).
C5_DegradedFailureIsWarning ==
    (Finished /\ ("app_config" \in failed \/ "restart" \in failed)) =>
        /\ result = "True"
        /\ exit_status = 0
        /\ "restart" \in Steps
        /\ RequestedPostStepsExecuted

\* C5 witness: a finished run whose service restart failed.
C5_Witness ==
    /\ Finished
    /\ "restart" \in failed
    /\ "optimize" \in Steps

\* C6: the container deployment is executed only with both flags set, and then
\* no step of the traditional path is; with a flag unset it is never
\* executed, and once the path is chosen it is the container path iff both
\* flags are set.
C6_ContainerPathIffBothFlags ==
    /\ "docker_deploy" \in Steps =>
          /\ docker_enabled /\ use_docker
          /\ Steps \cap TraditionalSteps = {}
    /\ Steps \cap TraditionalSteps # {} => ~(docker_enabled /\ use_docker)
    /\ "optimize" \in Steps =>
          ("docker_deploy" \in Steps <=> (docker_enabled /\ use_docker))
    /\ "optimize" \in Steps =>
          ("upload" \in Steps <=> ~(docker_enabled /\ use_docker))

\* C6 witness: a finished run that took the container path.
C6_Witness ==
    /\ Finished
    /\ "docker_deploy" \in Steps
    /\ exit_status = 0

\* C7: a run whose deployment path did not abort executes the post-steps its
\* inputs request, in the order env, verify, cleanup, optimize, after the
\* steps of its path, and the same ones on the container path as on the
\* traditional path.
C7_PostStepsOnBothPaths ==
    /\ result = "True" => ExecutedPostSteps = RequestedPostSteps
    /\ \A i, j \in DOMAIN trace :
          (trace[i].step \in PostStepNames
             /\ trace[j].step \in TraditionalSteps \cup {"docker_deploy", "service_check"})
          => j < i

\* C7 witness: a finished run on the container path with all post-steps.
C7_Witness ==
    /\ Finished
    /\ "docker_deploy" \in Steps
    /\ ExecutedPostSteps = << "env", "verify", "cleanup", "optimize" >>

\* The positions of _deploy_application_files that hold a target directory.
HoldsTargetDirectory == pc \in {"upload", "build_script", "deploy_script"}

C13_VerificationStopsAtFirstMatch ==
    /\ attempt \in 0..MaxAttempts
    /\ pc = "verify_loop" => (verify_outcome = Nil /\ attempt < MaxAttempts)
    /\ (pc = "verify_return" /\ verify_outcome = "matched") =>
          (attempt \in 1..MaxAttempts /\ VerifySuccess(verify_outcome))
    /\ (pc = "verify_return" /\ verify_outcome = "exhausted") =>
          attempt = MaxAttempts
    /\ (pc = "cleanup" /\ verify_outcome = "matched") => success

\* C13 witness: the third attempt matched and the script has ended there.
C13_Witness ==
    /\ pc = "verify_return"
    /\ verify_outcome = "matched"
    /\ attempt = 3

\* C14: when all 5 attempts fail to match, the script prints its warning and
\* ends normally: _verify_deployment reports success, cleanup (if requested)
\* and performance tuning are executed, deploy_application returns True and
\* the exit status is 0.
C14_ExhaustionIsWarning ==
    /\ (pc = "cleanup" /\ verify_outcome = "exhausted") => success
    /\ (Finished /\ verify_outcome = "exhausted") =>
          /\ result = "True"
          /\ exit_status = 0
          /\ cleanup => "cleanup" \in Steps
          /\ "optimize" \in Steps

\* C14 witness: a finished run with cleanup requested whose verification
\* made 5 attempts without a match.
C14_Witness ==
    /\ Finished
    /\ verify_outcome = "exhausted"
    /\ cleanup
    /\ "cleanup" \in Steps
    /\ exit_status = 0

\* The steps whose command outcome deploy_application does not look at.
BestEffortSteps == { "env", "cleanup", "optimize" }

\* C15: a failure (or timeout) of the environment-variable, cleanup or
\* performance-tuning command never makes the result False and stops no
\* later step: the run executes every post-step its inputs request, in
\* order, and ends with the result True and the exit status 0, as it does
\* when the command succeeds.
C15_BestEffortStepsNeverCount ==
    /\ failed \cap BestEffortSteps # {} => result # "False"
    /\ (Finished /\ Steps \cap BestEffortSteps # {}) =>
          /\ result = "True"
          /\ exit_status = 0
          /\ ExecutedPostSteps = RequestedPostSteps

\* C15 witness: a finished run whose environment-variable command failed and
\* whose verification, cleanup and tuning were executed after it.
C15_Witness ==
    /\ Finished
    /\ "env" \in failed
    /\ ExecutedPostSteps = << "env", "verify", "cleanup", "optimize" >>
    /\ exit_status = 0

\* C16: when the probe command fails, construction does not raise and the
\* installed list is empty from then on; the run goes on to
\* deploy_application, and a run with no other failure ends with the result
\* True and the exit status 0.
C16_ProbeFailureNotFatal ==
    "detect" \in failed =>
        /\ installed = << >>
        /\ "construct" \notin failed
        /\ Finished => (result # Nil \/ "deploy" \in failed)
        /\ (Finished /\ failed = {"detect"}) =>
              (result = "True" /\ exit_status = 0)

\* C16 witness: a finished run whose probe failed, with dependencies enabled.
C16_Witness ==
    /\ Finished
    /\ "detect" \in failed
    /\ enabled # {}
    /\ "optimize" \in Steps
    /\ exit_status = 0

\* The argument parser accepted the command line.
CommandLineAccepted == "parse_args" \notin Steps

\* An exception reached main's handler.
ExceptionRaised == failed \cap {"load_config", "construct", "deploy"} # {}

StepRank(name) ==
    CASE name = "detect" -> 1
      [] name = "upload" -> 2
      [] name = "deploy_script" -> 3
      [] name = "configure" -> 4
      [] name = "app_config" -> 5
      [] name = "restart" -> 6
      [] name = "service_check" -> 7
      [] name = "env" -> 8
      [] name = "verify" -> 9
      [] name = "cleanup" -> 10
      [] name = "optimize" -> 11
      [] OTHER -> 0

TraditionalRun == "docker_deploy" \notin Steps

\* C18: in a run on the traditional path the steps are executed in the order
\* detection, file deployment, configurator dispatch, app-specific setup,
\* service restart, environment variables, verification, cleanup, tuning,
\* each at most once (the dispatch is one pass over the configurators);
\* while the verification script is running no other step has begun; a run
\* that returns True has executed every step that is not optional.
C18_TraditionalStepOrder ==
    TraditionalRun =>
        /\ \A i, j \in DOMAIN trace :
              i < j =>
                  \/ StepRank(trace[i].step) < StepRank(trace[j].step)
                  \/ /\ trace[i].step = "configure"
                     /\ trace[j].step = "configure"
        /\ Len(InvokedConfigurators) <= Len(CreateConfigurators(installed))
        /\ pc \in {"verify_loop", "verify_return"} =>
              trace[Len(trace)].step = "verify"
        /\ result = "True" =>
              /\ { "detect", "upload", "deploy_script", "app_config",
                    "restart", "optimize" } \subseteq Steps
              /\ ExecutedPostSteps = RequestedPostSteps

\* C18 witness: a finished run that executed every step of the traditional
\* path, with two configurators.
C18_Witness ==
    /\ Finished
    /\ TraditionalRun
    /\ Len(InvokedConfigurators) = 2
    /\ { "detect", "upload", "deploy_script", "configure", "app_config",
          "restart", "env", "verify", "cleanup", "optimize" } \subseteq Steps

\* The positions of main up to the end of the orchestrator's construction.
UnderConstruction ==
    { "parse_args", "load_config", "parse_env", "read_toggle", "construct",
      "detect" }

\* Detection is the first step of a run and is executed at most once; no
\* directory is resolved and no configurator is selected during construction.
DetectionOnceAndFirst ==
    /\ \A i \in DOMAIN trace : trace[i].step = "detect" <=> (i = 1 /\ CommandLineAccepted)
    /\ pc \in UnderConstruction =>
          (target_dir = Nil /\ owner = << >> /\ configurators = << >>)

\* A step that changes the installed list is a step of detection, which
\* appends one name; a step that leaves construction, or comes after it,
\* leaves the list as it is; the enabled set is written when construction
\* reads it and the toggle when main reads it, and never again.
InstalledWrittenByDetectionOnly ==
    /\ installed' # installed =>
          /\ pc = "detect" /\ pc' = "detect"
          /\ \E name \in enabled : installed' = Append(installed, name)
    /\ enabled' # enabled => pc = "construct"
    /\ dep_steps_enabled' # dep_steps_enabled => pc = "read_toggle"

\* C19: detection runs once, during construction and before any resolution
\* of a directory or an owner, any selection of configurators and any
\* deployment action; after construction no step writes the installed list,
\* and no step of the orchestrator writes the enabled set or the
\* configuration toggle.
C19_DetectionOnceInstalledFrozen ==
    []DetectionOnceAndFirst /\ [][InstalledWrittenByDetectionOnly]_vars

\* C19 witness: a finished run on a host with two detected dependencies that
\* went through the configurator dispatch.
C19_Witness ==
    /\ Finished
    /\ Len(installed) = 2
    /\ "configure" \in Steps
    /\ "optimize" \in Steps

\* C20: with deployment.steps.post_deployment.dependencies.enabled read as
\* false no configurator is invoked in the run; with the toggle true or
\* absent the dispatch invokes the configurators of the installed list.
C20_ToggleGatesDispatch ==
    /\ (pc \notin UnderConstruction /\ ~dep_steps_enabled) =>
          "configure" \notin Steps
    /\ (dep_steps_enabled /\ pc \in AfterDispatch /\ "deploy_script" \in Steps
            /\ "deploy_script" \notin failed) =>
          InvokedConfigurators = CreateConfigurators(installed)

\* The scenario: nginx and python are enabled and the probe reported both.
NginxPythonHost ==
    /\ enabled = {"nginx", "python"}
    /\ installed = << "nginx", "python" >>

\* C21: on the nginx and python host with no declared type the target
\* directory is the Python runtime directory and its owner is the default
\* account for user and group, although nginx is installed; a verification
\* that matches at attempt 1 reports success; and a run on that host in
\* which file deployment, the configurators, the restart and verification
\* succeed ends with the result True and the exit status 0.
C21_NginxPythonScenario ==
    NginxPythonHost =>
        /\ (HoldsTargetDirectory /\ declared_type = None) =>
              target_dir = "/opt/python-app"
        /\ (pc = "deploy_script" /\ declared_type = None) =>
              owner \in { << "ubuntu", "ubuntu" >>, << "ec2-user", "ec2-user" >> }
        /\ (pc = "verify_return" /\ attempt = 1 /\ verify_outcome = "matched") =>
              VerifySuccess(verify_outcome)
        /\ (Finished /\ "deploy_script" \in Steps /\ failed = {}
                /\ verify_outcome = "matched") =>
              (result = "True" /\ exit_status = 0)

\* C21 witness: a finished run of the scenario in which nothing failed, the
\* configurator dispatch ran and verification matched.
C21_Witness ==
    /\ Finished
    /\ NginxPythonHost
    /\ failed = {}
    /\ { "deploy_script", "configure", "restart" } \subseteq Steps
    /\ verify_outcome = "matched"
    /\ exit_status = 0

\* The deployment script has chosen its payload directory.
PayloadSelected ==
    pc = "copy" \/ "copy" \in Steps \/ "mkdir_target" \in failed

\* The entries of package_files that declare a directory, by position.
DeclaredPositions ==
    { i \in 1..Len(package_files) :
         Len(package_files[i]) >= 2 /\ package_files[i][1] # "" }

\* The declared directories that the package unpacked.
DeclaredPresent ==
    { i \in DeclaredPositions : package_files[i][1] \in extracted }

\* What the copy step of the script copied.
CopiedSources ==
    { trace[i].arg : i \in { j \in 1..Len(trace) : trace[j].step = "copy" } }

\* C22: the payload directory is the first declared directory, in declared
\* order, that exists after extraction; when none exists it is a directory
\* matching the wildcard pattern; when there is none either, everything in
\* the extraction root is copied. Every directory declared in package_files
\* is a candidate, in declared order. In each case a build directory inside
\* the chosen directory (or root) is copied in preference to the directory.
C22_PayloadDirectorySelection ==
    /\ pc # "expected_dirs" =>
          /\ \A i \in DeclaredPositions : Has(expected_dirs, package_files[i][1])
          /\ \A k \in 1..Len(expected_dirs) :
                \E i \in DeclaredPositions :
                   /\ package_files[i][1] = expected_dirs[k]
                   /\ \A h \in 1..(k - 1) :
                         \E g \in DeclaredPositions :
                            g < i /\ package_files[g][1] = expected_dirs[h]
    /\ PayloadSelected =>
          /\ DeclaredPresent # {} =>
                \E i \in DeclaredPresent :
                   /\ extracted_dir = package_files[i][1]
                   /\ \A g \in DeclaredPresent : g >= i
          /\ (DeclaredPresent = {} /\ extracted \cap WildcardNames # {}) =>
                extracted_dir \in extracted \cap WildcardNames
          /\ (DeclaredPresent = {} /\ extracted \cap WildcardNames = {}) =>
                extracted_dir = ""
    /\ \A src \in CopiedSources :
          /\ (extracted_dir # "" /\ extracted_dir \in with_build) =>
                src = << extracted_dir, "build" >>
          /\ (extracted_dir # "" /\ extracted_dir \notin with_build) =>
                src = << extracted_dir >>
          /\ (extracted_dir = "" /\ "build" \in extracted) => src = << "build" >>
          /\ (extracted_dir = "" /\ "build" \notin extracted) => src = << >>

\* The first declared directory is missing, the second exists beside a
\* wildcard match and holds a build directory, which is what was copied.
C22_Witness ==
    /\ package_files = << << "app-a", "" >>, << "app-b", "" >> >>
    /\ "app-a" \notin extracted
    /\ { "app-b", "example-x-app" } \subseteq extracted
    /\ CopiedSources = { << "app-b", "build" >> }
    /\ pc = "script_done" /\ success

C24_InstalledNamesOccurOnce ==
    \A i, j \in DOMAIN installed :
       installed[i] = installed[j] => i = j

\* C25: when the container path is taken and the container deployment
\* reports failure, the run aborts there: the result is failure, the exit
\* status is 1, and none of environment-variable injection, verification,
\* cleanup or performance tuning is executed afterwards.
C25_ContainerFailureAborts ==
    "docker_deploy" \in failed =>
        /\ result = "False"
        /\ pc \in { "returned", "exited" }
        /\ trace[Len(trace)].step = "docker_deploy"
        /\ Steps \cap PostStepNames = {}
        /\ Finished => exit_status = 1

\* A finished run whose container deployment failed.
C25_Witness ==
    /\ Finished
    /\ "docker_deploy" \in failed
    /\ exit_status = 1

\* The --env items given on the command line that have the form KEY=VALUE.
SuppliedVariables ==
    { i \in DOMAIN env_args : env_args[i] = "KEY=VALUE" }

\* C26: in every run that is not aborted, verification is executed iff the
\* verify flag was given, cleanup iff the cleanup flag was given, the
\* environment-variable step iff at least one KEY=VALUE item was supplied,
\* and performance tuning always; and whatever these inputs are, a run on
\* the traditional path executes file deployment, one configurator
\* invocation per configurator, the app-specific setup and the restart.
\* No optional step is executed, in any state, without its input.
C26_OptionalStepsGatedByOwnInputs ==
    /\ "verify" \in Steps => verify
    /\ "cleanup" \in Steps => cleanup
    /\ "env" \in Steps => SuppliedVariables # {}
    /\ (Finished /\ result = "True") =>
          /\ verify => "verify" \in Steps
          /\ cleanup => "cleanup" \in Steps
          /\ SuppliedVariables # {} => "env" \in Steps
          /\ "optimize" \in Steps
          /\ TraditionalRun =>
                /\ { "upload", "deploy_script", "app_config", "restart" }
                      \subseteq Steps
                /\ Len(InvokedConfigurators) = Len(CreateConfigurators(installed))

\* A finished traditional run given the verify flag and an --env item that
\* is not of the form KEY=VALUE, and no cleanup flag: verification and tuning
\* were executed, cleanup and the environment-variable step were not.
C26_Witness ==
    /\ Finished /\ result = "True" /\ TraditionalRun
    /\ verify /\ ~ cleanup
    /\ env_args = << "NOEQUALS" >>
    /\ Steps \cap PostStepNames = { "verify", "optimize" }
    /\ "restart" \in Steps

\* deploy_application has been called and has not returned.
InDeployApplication ==
    pc \notin { "parse_args", "load_config", "parse_env", "read_toggle",
                "construct", "detect", "returned", "exited" }

\* C27: every call of deploy_application ends, with an abort return, the
\* final return or an exception that ends the run, on both paths and
\* whatever the steps' outcomes; verification makes at most 5 attempts and
\* the dispatch invokes each configurator of its list at most once.
C27_DeployApplicationTerminates ==
    /\ [](attempt <= MaxAttempts)
    /\ [](Len(InvokedConfigurators) <= Len(CreateConfigurators(installed)))
    /\ InDeployApplication ~> (pc \in { "returned", "exited" })

\* A call on the traditional path that invoked a configurator, made all
\* five attempts of the verification without a match, and returned.
C27_Witness ==
    /\ pc = "returned" /\ result = "True"
    /\ TraditionalRun
    /\ Len(InvokedConfigurators) >= 1
    /\ verify_outcome = "exhausted"

-----------------------------------------------------------------------------
(* Properties of the planning functions *)

TargetResolved == pc \in {"plan_owner", "planned"}

RuntimeSpecificTypes == { "nodejs", "python", "docker" }

GenericWebTypes == { "web", "api", "static" }

\* The directory of a runtime-specific type.
TypeDirectory(t) ==
    CASE t = "nodejs" -> "/opt/nodejs-app"
      [] t = "python" -> "/opt/python-app"
      [] t = "docker" -> "/opt/docker-app"

\* The generic web rule: a runtime, else a web server's document root, else
\* the standard web root.
WebRuleDirectory ==
    CASE Has(installed, "nodejs") -> "/opt/nodejs-app"
      [] ~Has(installed, "nodejs") /\ Has(installed, "python") -> "/opt/python-app"
      [] OTHER ->
           CASE Has(installed, "apache") ->
                  IF apache_root = Unset THEN "/var/www/html" ELSE apache_root
             [] ~Has(installed, "apache") /\ Has(installed, "nginx") ->
                  IF nginx_root = Unset THEN "/var/www/html" ELSE nginx_root
             [] OTHER -> "/var/www/html"

\* C8: with a declared runtime-specific type the target directory is that
\* type's directory, whatever is installed and whatever document roots are
\* configured; with a declared type that is neither runtime-specific nor
\* web, api or static it is the generic application directory.
C8_DeclaredTypeDecides ==
    TargetResolved =>
        /\ declared_type \in RuntimeSpecificTypes =>
              target_dir = TypeDirectory(declared_type)
        /\ declared_type \notin RuntimeSpecificTypes \cup GenericWebTypes \cup {None} =>
              target_dir = "/opt/app"

\* C8 witness: python is declared, nodejs and apache are installed, apache has
\* a document root, and the Python directory is resolved.
C8_Witness ==
    /\ TargetResolved
    /\ declared_type = "python"
    /\ Has(installed, "nodejs")
    /\ Has(installed, "apache")
    /\ apache_root # Unset
    /\ target_dir = "/opt/python-app"

\* C9: with no declared type the type is inferred from the installed list,
\* nodejs before python before docker before web, and only when none of the
\* three is installed does the generic web rule apply.
C9_InferenceOrder ==
    (TargetResolved /\ declared_type = None) =>
        target_dir =
            CASE Has(installed, "nodejs") -> "/opt/nodejs-app"
              [] ~Has(installed, "nodejs") /\ Has(installed, "python") -> "/opt/python-app"
              [] ~Has(installed, "nodejs") /\ ~Has(installed, "python")
                    /\ Has(installed, "docker") -> "/opt/docker-app"
              [] OTHER -> WebRuleDirectory

\* C9 witness: no type is declared, docker and a web server with a document
\* root are installed and no runtime is: the container directory is resolved.
C9_Witness ==
    /\ TargetResolved
    /\ declared_type = None
    /\ Has(installed, "docker")
    /\ Has(installed, "apache")
    /\ apache_root # Unset
    /\ target_dir = "/opt/docker-app"

\* C10: with a declared type web, api or static the target directory is the
\* directory of an installed runtime (nodejs before python), else the document
\* root of an installed web server (apache before nginx; the standard web root
\* if that root is unset), else the standard web root; with a runtime
\* installed it is a runtime directory.
C10_GenericWebPriority ==
    (TargetResolved /\ declared_type \in GenericWebTypes) =>
        /\ target_dir = WebRuleDirectory
        /\ (Has(installed, "nodejs") \/ Has(installed, "python")) =>
              target_dir \in {"/opt/nodejs-app", "/opt/python-app"}

\* C10 witness: api is declared, python and nginx are installed, nginx has a
\* document root, and the Python directory is resolved.
C10_Witness ==
    /\ TargetResolved
    /\ declared_type = "api"
    /\ Has(installed, "python")
    /\ Has(installed, "nginx")
    /\ nginx_root # Unset
    /\ target_dir = "/opt/python-app"

\* The target directory and its owner are both resolved.
OwnerResolved == pc = "planned"

\* The runtime, container and generic application directories.
ApplicationDirectories ==
    { "/opt/nodejs-app", "/opt/python-app", "/opt/docker-app", "/opt/app" }

WebServerInstalled == Has(installed, "apache") \/ Has(installed, "nginx")

\* The default account and the web-server account of the host's OS family.
DefaultAccount == IF os_type = "amazon_linux" THEN "ec2-user" ELSE "ubuntu"

WebServerAccount == IF os_type = "amazon_linux" THEN "apache" ELSE "www-data"

\* C11: the owner of an application directory is the default account for
\* user and group, with or without a web server installed; the owner of any
\* other directory is the web-server account and group if apache or nginx is
\* installed, and the default account otherwise.
C11_OwnerResolution ==
    OwnerResolved =>
        /\ target_dir \in ApplicationDirectories =>
              owner = << DefaultAccount, DefaultAccount >>
        /\ (target_dir \notin ApplicationDirectories /\ WebServerInstalled) =>
              owner = << WebServerAccount, WebServerAccount >>
        /\ (target_dir \notin ApplicationDirectories /\ ~WebServerInstalled) =>
              owner = << DefaultAccount, DefaultAccount >>

\* C11 witness: a runtime directory is resolved on a host with a web server,
\* and its owner is the default account.
C11_Witness ==
    /\ OwnerResolved
    /\ target_dir = "/opt/nodejs-app"
    /\ Has(installed, "apache")
    /\ owner = << "ubuntu", "ubuntu" >>

=============================================================================
